---- MODULE Spec2Model ----
(***************************************************************************)
(* Client-side state model of the panel-game front end: the grid mask      *)
(* store, the item inventory store and the request orchestrator of the     *)
(* top-level page (requestInference and the mask observer).                *)
(*                                                                         *)
(* JavaScript arrays are modelled as sequences: JS index i is TLA+ index   *)
(* i + 1.  All handlers run to completion on the single JS thread, so      *)
(* each handler is one action.  The only suspension point is the           *)
(* `await $fetch(...)` of requestInference: the part before it is the      *)
(* action Estimate, the continuation after it is RespondSuccess, and a     *)
(* rejected promise is RespondFailure.                                     *)
(***************************************************************************)
EXTENDS Integers, Sequences, FiniteSets, TLC

\* ---------------------------------------------------------------- bounds
\* largest in-range column / row passed to flipMask when the grid store is
\* exercised alone
MaxX == 1
MaxY == 1
\* largest count passed to setCount (the selectors offer 0..6)
MaxCount == 1
\* number of size presets passed to setSize
MaxPreset == 2
\* cap on the number of requests in flight
MaxInFlight == 2
\* number of distinct response bodies the service may send
MaxResults == 2

\* ------------------------------------------------------ program constants
\* new ItemSize(5, 9): the grid has 5 rows and 9 columns
Rows == 5
Cols == 9
\* v-for="index in 45": the panel grid container renders 45 panels
PanelCount == 45

VARIABLES
  mask,                 \* useGridStore.mask: Rows arrays of Cols booleans
  size,                 \* useGridStore._size
  settings,             \* useItemStore.settings
  estimates,            \* page: estimates ref (Null or an InferenceResult)
  isShowWaitIndicator,  \* page: isShowWaitIndicator ref
  inflight,             \* bag of request bodies sent and not yet answered
  mode,                 \* useDisplayModeStore._mode
  component,            \* which HiddenItemSetting definition is mounted
  selectedItemSizePresetIndex,  \* per setting: the size selector's v-model
  selectedNumItems,     \* per setting: the count selector's v-model
  lastOp                \* history: the operation that ran last, its
                        \* arguments and what it saw before it ran

\* the display mode and the state of the four HiddenItemSetting instances
view == <<mode, component, selectedItemSizePresetIndex, selectedNumItems>>

vars == <<mask, size, settings, estimates, isShowWaitIndicator, inflight,
          view, lastOp>>

\* ------------------------------------------------------------ data types
ItemSize(rows, cols) == [rows |-> rows, cols |-> cols]

DisplayMode == [Entropy |-> "entropy", Probability |-> "probability"]

Null == [tag |-> "null"]

\* the response bodies of the external service, told apart by id
InferenceResults == {[tag |-> "result", id |-> i] : i \in 1..MaxResults}

\* Array(cols).fill(false)
FalseRow(cols) == [j \in 1..cols |-> FALSE]

\* Array.from({ length: rows }, () => Array(cols).fill(false))
FreshMask(sz) == [i \in 1..sz.rows |-> FalseRow(sz.cols)]

InitialSettings ==
  << [size |-> [cols |-> 2, rows |-> 1], count |-> 0],
     [size |-> [cols |-> 2, rows |-> 1], count |-> 0],
     [size |-> [cols |-> 3, rows |-> 2], count |-> 0],
     [size |-> [cols |-> 3, rows |-> 3], count |-> 0] >>

\* presets of the item size selector
presets ==
  << ItemSize(1, 2), ItemSize(1, 3), ItemSize(1, 4), ItemSize(2, 2),
     ItemSize(2, 3), ItemSize(2, 4), ItemSize(3, 3) >>

\* ------------------------------------------------------- grid mask store
\* the guard of flipMask negated: (x, y) addresses a cell
InRange(sz, x, y) == ~(y < 0 \/ y >= sz.rows \/ x < 0 \/ x >= sz.cols)

\* mask.value[y][x] = !mask.value[y][x].  Reading a row that does not
\* exist throws a TypeError; a write at index length extends the row with
\* !undefined = true; a write at a negative index adds a property and
\* leaves the elements alone.
WriteFlip(m, x, y) ==
  IF y + 1 \notin 1..Len(m) THEN [mask |-> m, error |-> "TypeError"]
  ELSE IF x + 1 \in 1..Len(m[y + 1])
  THEN [mask |-> [m EXCEPT ![y + 1][x + 1] = ~m[y + 1][x + 1]],
        error |-> "none"]
  ELSE IF x = Len(m[y + 1])
  THEN [mask |-> [m EXCEPT ![y + 1] = Append(m[y + 1], TRUE)],
        error |-> "none"]
  ELSE [mask |-> m, error |-> "none"]

\* faulty variant: the column bound is tested with > instead of >=
flipMask_offByOne(m, sz, x, y) ==
  IF y < 0 \/ y >= sz.rows \/ x < 0 \/ x > sz.cols
  THEN [mask |-> m, error |-> "none"]
  ELSE WriteFlip(m, x, y)

\* faulty variant: the cell is set instead of toggled
flipMask_setsTrue(m, sz, x, y) ==
  IF ~InRange(sz, x, y) THEN [mask |-> m, error |-> "none"]
  ELSE [mask |-> [m EXCEPT ![y + 1][x + 1] = TRUE], error |-> "none"]

\* useGridStore.flipMask: the new mask and the error raised, if any
flipMask(m, sz, x, y) ==
  IF y < 0 \/ y >= sz.rows \/ x < 0 \/ x >= sz.cols
  THEN [mask |-> m, error |-> "none"]
  ELSE WriteFlip(m, x, y)

\* faulty variant: the first row is not replaced
reset_keepsFirstRow(m, sz) ==
  [i \in 1..sz.rows |-> IF i = 1 THEN m[1] ELSE FalseRow(sz.cols)]

\* useGridStore.reset
reset(m, sz) == FreshMask(sz)

\* the double loop of isAllMasked, row i and column j as in the code
RECURSIVE isAllMaskedFrom(_, _, _, _)
isAllMaskedFrom(m, sz, i, j) ==
  IF i >= sz.rows THEN TRUE
  ELSE IF j >= sz.cols THEN isAllMaskedFrom(m, sz, i + 1, 0)
  ELSE IF m[i + 1][j + 1] THEN FALSE
  ELSE isAllMaskedFrom(m, sz, i, j + 1)

isAllMasked(m, sz) == isAllMaskedFrom(m, sz, 0, 0)

\* ----------------------------------------------------------- item store
setSize(s, index, sz) == [s EXCEPT ![index + 1].size = sz]

setCount(s, index, count) == [s EXCEPT ![index + 1].count = count]

\* faulty variant: width and height exchanged
Rectangle_swapped(item) == [width |-> item.size.rows, height |-> item.size.cols]

\* { width: item.size.cols, height: item.size.rows }
Rectangle(item) == [width |-> item.size.cols, height |-> item.size.rows]

\* for (let j = 0; j < item.count; j++) result.push(...)
RECURSIVE pushCopies(_, _, _)
pushCopies(item, j, result) ==
  IF j < item.count
  THEN pushCopies(item, j + 1, Append(result, Rectangle(item)))
  ELSE result

\* for (let i = 0; i < settings.value.length; i++) ...
RECURSIVE toRectangleArrayFrom(_, _, _)
toRectangleArrayFrom(s, i, result) ==
  IF i < Len(s)
  THEN toRectangleArrayFrom(s, i + 1, pushCopies(s[i + 1], 0, result))
  ELSE result

toRectangleArray(s) == toRectangleArrayFrom(s, 0, <<>>)

\* ---------------------------------------------------------- orchestrator
\* faulty variant: the rectangle list is left out of the body
RequestParam_noRectangles(m, sz, s) ==
  [mask |-> [rows |-> sz.rows, cols |-> sz.cols, data |-> m],
   rectangles |-> <<>>]

\* the body of the POST request built by requestInference; $fetch
\* serialises it during the call, so it is a copy of the stores' state
RequestParam(m, sz, s) ==
  [mask |-> [rows |-> sz.rows, cols |-> sz.cols, data |-> m],
   rectangles |-> toRectangleArray(s)]

\* faulty variant: the observer never clears
MaskObserver_keeps(m, sz, e) == e

\* the $subscribe callback: if (gridStore.isAllMasked()) estimates = null
MaskObserver(m, sz, e) == IF isAllMasked(m, sz) THEN Null ELSE e

\* faulty variant: a response for a fully open grid is dropped
onFulfilled_dropsStale(m, sz, e, w, data) ==
  [estimates |-> IF isAllMasked(m, sz) THEN e ELSE data,
   isShowWaitIndicator |-> FALSE]

\* the continuation of requestInference after a successful await:
\* estimates.value = data; isShowWaitIndicator.value = false
onFulfilled(m, sz, e, w, data) ==
  [estimates |-> data, isShowWaitIndicator |-> FALSE]

\* faulty variant: a failure clears the displayed result
onRejected_clears(e, w) == [estimates |-> Null, isShowWaitIndicator |-> w]

\* the await throws: requestInference has no try/catch/finally, so the
\* two statements after the await are skipped
onRejected(e, w) == [estimates |-> e, isShowWaitIndicator |-> w]

\* the estimate button emits "estimate" on every click; re-entrant
\* triggers while waiting are not prevented
EstimateButtonEmits(waiting) == TRUE

\* bags of request bodies
BagSize(b) == LET RECURSIVE Sum(_)
                  Sum(S) == IF S = {} THEN 0
                            ELSE LET r == CHOOSE r \in S : TRUE
                                 IN b[r] + Sum(S \ {r})
              IN Sum(DOMAIN b)
BagAdd(b, r) ==
  [x \in DOMAIN b \cup {r} |->
     (IF x \in DOMAIN b THEN b[x] ELSE 0) + (IF x = r THEN 1 ELSE 0)]
BagRemove(b, r) ==
  [x \in {z \in DOMAIN b : z # r \/ b[z] > 1} |->
     IF x = r THEN b[x] - 1 ELSE b[x]]
EmptyInflight == [x \in {} |-> 0]

\* --------------------------------------------------- display mode store
\* useDisplayModeStore.setMode
setMode(m, newMode) == newMode

\* the mode button's click handler
handleDisplayModeChange(m) ==
  setMode(m, IF m = DisplayMode.Probability THEN DisplayMode.Entropy
             ELSE DisplayMode.Probability)

\* -------------------------------------------------- panel grid container
\* faulty variant: the row is computed from the number of rows
indexToRowCol_byRows(index, sz) ==
  [row |-> index \div sz.rows, col |-> index % sz.cols]

\* row = Math.floor(index / cols), col = index % cols
indexToRowCol(index, sz) ==
  [row |-> index \div sz.cols, col |-> index % sz.cols]

\* Array.prototype.flat(): the rows one after the other
RECURSIVE flat(_)
flat(m) == IF m = <<>> THEN <<>> ELSE Head(m) \o flat(Tail(m))

\* faulty variant: the flag is the negated mask cell
isOpen_negated(m) == [k \in 1..Len(flat(m)) |-> ~flat(m)[k]]

\* isOpen = computed(() => gridStore.mask.flat())
isOpen(m) == flat(m)

\* handleClick(i): gridStore.flipMask(col, row)
handleClick(m, sz, i) ==
  LET rc == indexToRowCol(i, sz) IN flipMask(m, sz, rc.col, rc.row)

\* the class binding of a panel: no colour class when data is shown,
\* else light grey when isOpen and dark grey when not
panelClass(pd, open) ==
  IF pd # Null THEN "" ELSE IF open THEN "bg-gray-100" ELSE "bg-gray-500"

\* ------------------------------------------------- hidden item setting
\* presets of the second HiddenItemSetting definition
presets2 ==
  << ItemSize(2, 1), ItemSize(3, 1), ItemSize(3, 2), ItemSize(3, 3) >>

\* the presets of the mounted definition
presetsOf(c) == IF c = 1 THEN presets ELSE presets2

\* handleSelectChange of the first definition; value is Number(value) of
\* the changed select: if (size != null) setSize; if (count != null)
\* setCount
handleSelectChange(s, index, type, value) ==
  LET sized == IF type = "itemSize"
               THEN setSize(s, index, presets[value + 1]) ELSE s
  IN IF type = "numItems" THEN setCount(sized, index, value) ELSE sized

\* handleSelectChange of the second definition: if (size) setSize;
\* if (count) setCount, and 0 is falsy
handleSelectChange2(s, index, type, value) ==
  LET sized == IF type = "itemSize"
               THEN setSize(s, index, presets2[value + 1]) ELSE s
  IN IF type = "numItems" /\ value # 0 THEN setCount(sized, index, value)
     ELSE sized

\* ------------------------------------------------- the service's answers
\* JavaScript's undefined
Undefined == [tag |-> "undefined"]

\* colours the service paints cells with: black, white, greys around the
\* threshold, colours whose weighted sum is 124500, 125499 and 125500,
\* and the primaries
Palette ==
  << <<0, 0, 0>>, <<255, 255, 255>>, <<125, 125, 125>>, <<126, 126, 126>>,
     <<1, 191, 106>>, <<0, 207, 35>>, <<2, 192, 107>>,
     <<255, 0, 0>>, <<0, 255, 0>>, <<0, 0, 255>> >>

\* the dimensions of the grids of a response: the second response body
\* has one row and one column less than the mask (a contract violation
\* of the service), every other body matches the mask
ResultSize(res) ==
  IF res.id = 2 THEN ItemSize(Rows - 1, Cols - 1) ELSE ItemSize(Rows, Cols)

\* one [number, Color] tuple: element 0 is the value (in hundredths),
\* element 1 the colour
Tuple(n) ==
  [tag |-> "tuple", value |-> n % 101, color |-> Palette[(n % Len(Palette)) + 1]]

\* a Grid<[number, Color]> of a response
ResultGrid(res, shift) ==
  LET sz == ResultSize(res) IN
  [rows |-> sz.rows, cols |-> sz.cols,
   data |-> [r \in 1..sz.rows |->
               [c \in 1..sz.cols |->
                  Tuple((r - 1) * sz.cols + (c - 1) + res.id + shift)]]]

\* InferenceResult.probabilities and InferenceResult.entropy
probabilities(res) == ResultGrid(res, 0)
entropy(res) == ResultGrid(res, 3)

\* ------------------------------------------------- inference result mapper
\* data[row][col]: reading a row that does not exist throws a TypeError,
\* reading past the end of a row gives undefined
ReadCell(data, row, col) ==
  IF row + 1 \notin 1..Len(data)
  THEN [value |-> Undefined, error |-> "TypeError"]
  ELSE IF col + 1 \notin 1..Len(data[row + 1])
  THEN [value |-> Undefined, error |-> "none"]
  ELSE [value |-> data[row + 1][col + 1], error |-> "none"]

\* PanelGridContainer.getProbability
getProbability(res, i, sz) ==
  LET rc == indexToRowCol(i, sz) IN
  IF res # Null THEN ReadCell(probabilities(res).data, rc.row, rc.col)
  ELSE [value |-> Null, error |-> "none"]

\* PanelGridContainer.getEntropy
getEntropy(res, i, sz) ==
  LET rc == indexToRowCol(i, sz) IN
  IF res # Null THEN ReadCell(entropy(res).data, rc.row, rc.col)
  ELSE [value |-> Null, error |-> "none"]

\* faulty variant: the two props exchanged
panelData_swapped(md, entropyProp, probablityProp) ==
  IF md = DisplayMode.Entropy THEN probablityProp ELSE entropyProp

\* GridPanelItem.panelData
panelData(md, entropyProp, probablityProp) ==
  IF md = DisplayMode.Entropy THEN entropyProp ELSE probablityProp

\* Math.round(num / den) for num >= 0: floor(num / den + 1/2)
MathRound(num, den) == (2 * num + den) \div (2 * den)

\* faulty variant: the threshold is tested with >=
textColor_atLeast(pd) ==
  IF pd # Null
  THEN IF pd = Undefined THEN "TypeError"
       ELSE LET rgb == pd.color
                brightness ==
                  MathRound(rgb[1] * 299 + rgb[2] * 587 + rgb[3] * 114, 1000)
            IN IF brightness >= 125 THEN "black" ELSE "white"
  ELSE "black"

\* GridPanelItem.textColor; reading element 1 of undefined throws
textColor(pd) ==
  IF pd # Null
  THEN IF pd = Undefined THEN "TypeError"
       ELSE LET rgb == pd.color
                brightness ==
                  MathRound(rgb[1] * 299 + rgb[2] * 587 + rgb[3] * 114, 1000)
            IN IF brightness > 125 THEN "black" ELSE "white"
  ELSE "black"

\* ------------------------------------------------------------- inputs
\* panels clicked when the panel grid is exercised: the ends of the first
\* row, the start of the second, an inner panel and the last panel
ClickInputs == {0, Cols - 1, Cols, 2 * Cols + 3, PanelCount - 1}
\* cells passed to flipMask when the grid store is exercised alone, and
\* one coordinate pair beyond each edge of the grid
InRangeInputs == {<<x, y>> : x \in 0..MaxX, y \in 0..MaxY}
OutOfRangeInputs ==
  {<<-1, 0>>, <<Cols, 0>>, <<0, -1>>, <<0, Rows>>, <<Cols, Rows>>}
FlipInputs == InRangeInputs \cup OutOfRangeInputs
\* the orchestrator reads the mask through isAllMasked and copies it into
\* the request body: the first and the last cell are toggled
OrchFlipInputs == {<<0, 0>>, <<Cols - 1, Rows - 1>>}
Counts == 0..MaxCount
SizeInputs == {presets[i] : i \in 1..MaxPreset}
SettingIndices == 0..(Len(InitialSettings) - 1)

\* --------------------------------------------------------------- state
\* the stores and the page after setup, with HiddenItemSetting
\* definition c mounted for each of the settings
InitWith(c) ==
  /\ size = ItemSize(Rows, Cols)
  /\ mask = FreshMask(ItemSize(Rows, Cols))
  /\ settings = InitialSettings
  /\ estimates = Null
  /\ isShowWaitIndicator = FALSE
  /\ inflight = EmptyInflight
  /\ mode = DisplayMode.Entropy
  /\ component = c
  /\ selectedItemSizePresetIndex = [i \in 1..Len(InitialSettings) |-> 0]
  /\ selectedNumItems = [i \in 1..Len(InitialSettings) |-> 0]
  /\ lastOp = [op |-> "init"]

Init == InitWith(1)

\* a click handler calls gridStore.flipMask(x, y); the store subscription
\* runs the observer when the mask state changed
FlipMask(x, y) ==
  LET r == flipMask(mask, size, x, y) IN
  /\ mask' = r.mask
  /\ estimates' = IF r.mask # mask THEN MaskObserver(r.mask, size, estimates)
                   ELSE estimates
  /\ lastOp' = LET again == /\ lastOp.op = "flipMask"
                              /\ lastOp.x = x /\ lastOp.y = y
                IN [op |-> "flipMask", x |-> x, y |-> y, error |-> r.error,
                    before |-> mask, twice |-> again,
                    restored |-> again /\ r.mask = lastOp.before]
  /\ UNCHANGED <<size, settings, isShowWaitIndicator, inflight, view>>

\* the reset button calls gridStore.reset(); assigning a new array always
\* notifies the subscription
Reset ==
  LET m2 == reset(mask, size) IN
  /\ mask' = m2
  /\ estimates' = MaskObserver(m2, size, estimates)
  /\ lastOp' = [op |-> "reset", dirty |-> ~isAllMasked(mask, size),
                hadResult |-> estimates # Null]
  /\ UNCHANGED <<size, settings, isShowWaitIndicator, inflight, view>>

SetSize(index, sz) ==
  /\ settings' = setSize(settings, index, sz)
  /\ lastOp' = [op |-> "setSize", index |-> index, size |-> sz]
  /\ UNCHANGED <<mask, size, estimates, isShowWaitIndicator, inflight, view>>

SetCount(index, count) ==
  /\ settings' = setCount(settings, index, count)
  /\ lastOp' = [op |-> "setCount", index |-> index, count |-> count]
  /\ UNCHANGED <<mask, size, estimates, isShowWaitIndicator, inflight, view>>

\* requestInference up to the await
Estimate ==
  /\ EstimateButtonEmits(isShowWaitIndicator)
  /\ BagSize(inflight) < MaxInFlight
  /\ isShowWaitIndicator' = TRUE
  /\ inflight' = BagAdd(inflight, RequestParam(mask, size, settings))
  /\ lastOp' = [op |-> "estimate"]
  /\ UNCHANGED <<mask, size, settings, estimates, view>>

\* the service answers the request with body req with the result data
RespondSuccess(req, data) ==
  LET r == onFulfilled(mask, size, estimates, isShowWaitIndicator, data) IN
  /\ req \in DOMAIN inflight
  /\ estimates' = r.estimates
  /\ isShowWaitIndicator' = r.isShowWaitIndicator
  /\ inflight' = BagRemove(inflight, req)
  /\ lastOp' = [op |-> "success", data |-> data,
                stale |-> req.mask.data # mask]
  /\ UNCHANGED <<mask, size, settings, view>>

\* the request with body req fails (network error, non-success status,
\* malformed body): the awaited promise rejects
RespondFailure(req) ==
  LET r == onRejected(estimates, isShowWaitIndicator) IN
  /\ req \in DOMAIN inflight
  /\ estimates' = r.estimates
  /\ isShowWaitIndicator' = r.isShowWaitIndicator
  /\ inflight' = BagRemove(inflight, req)
  /\ lastOp' = [op |-> "failure", before |-> estimates]
  /\ UNCHANGED <<mask, size, settings, view>>

\* a click on panel i
HandleClick(i) ==
  LET rc == indexToRowCol(i, size) IN FlipMask(rc.col, rc.row)

\* a click on the display mode button
HandleDisplayModeChange ==
  /\ mode' = handleDisplayModeChange(mode)
  /\ lastOp' = [op |-> "setMode", before |-> mode]
  /\ UNCHANGED <<mask, size, settings, estimates, isShowWaitIndicator,
                 inflight, component, selectedItemSizePresetIndex,
                 selectedNumItems>>

\* the user picks preset p in the size selector of setting index: v-model
\* stores the index, then the change handler runs
SelectItemSize(index, p) ==
  /\ p < Len(presetsOf(component))
  /\ selectedItemSizePresetIndex' =
       [selectedItemSizePresetIndex EXCEPT ![index + 1] = p]
  /\ settings' = IF component = 1
                 THEN handleSelectChange(settings, index, "itemSize", p)
                 ELSE handleSelectChange2(settings, index, "itemSize", p)
  /\ lastOp' = [op |-> "selectSize", index |-> index, value |-> p]
  /\ UNCHANGED <<mask, size, estimates, isShowWaitIndicator, inflight,
                 mode, component, selectedNumItems>>

\* the user picks n in the count selector of setting index
SelectNumItems(index, n) ==
  /\ selectedNumItems' = [selectedNumItems EXCEPT ![index + 1] = n]
  /\ settings' = IF component = 1
                 THEN handleSelectChange(settings, index, "numItems", n)
                 ELSE handleSelectChange2(settings, index, "numItems", n)
  /\ lastOp' = [op |-> "selectCount", index |-> index, value |-> n]
  /\ UNCHANGED <<mask, size, estimates, isShowWaitIndicator, inflight,
                 mode, component, selectedItemSizePresetIndex>>

\* the page: mask edits, one count selector, the estimate button and the
\* service's answers
Next ==
  \/ \E c \in OrchFlipInputs : FlipMask(c[1], c[2])
  \/ Reset
  \/ \E c \in Counts : SetCount(0, c)
  \/ Estimate
  \/ \E req \in DOMAIN inflight, d \in InferenceResults : RespondSuccess(req, d)
  \/ \E req \in DOMAIN inflight : RespondFailure(req)

Spec == Init /\ [][Next]_vars

\* the grid store alone
NextGrid ==
  \/ \E c \in FlipInputs : FlipMask(c[1], c[2])
  \/ Reset

SpecGrid == Init /\ [][NextGrid]_vars

\* the item store alone, driven through its two setters
NextItem ==
  \/ \E i \in SettingIndices, c \in Counts : SetCount(i, c)
  \/ \E i \in SettingIndices, sz \in SizeInputs : SetSize(i, sz)

SpecItem == Init /\ [][NextItem]_vars

\* the panel grid: clicks on panels, the reset and the mode button
NextPanel ==
  \/ \E i \in ClickInputs : HandleClick(i)
  \/ Reset
  \/ HandleDisplayModeChange

SpecPanel == Init /\ [][NextPanel]_vars

\* the four HiddenItemSetting instances, of either definition
InitSetting == \E c \in {1, 2} : InitWith(c)

NextSetting ==
  \/ \E i \in SettingIndices, p \in 0..(MaxPreset - 1) : SelectItemSize(i, p)
  \/ \E i \in SettingIndices, n \in Counts : SelectNumItems(i, n)

SpecSetting == InitSetting /\ [][NextSetting]_vars

\* the result display: mask edits, the mode button, the estimate button
\* and the service's successful answers
NextView ==
  \/ \E c \in OrchFlipInputs : FlipMask(c[1], c[2])
  \/ Reset
  \/ HandleDisplayModeChange
  \/ Estimate
  \/ \E req \in DOMAIN inflight, d \in InferenceResults : RespondSuccess(req, d)

SpecView == Init /\ [][NextView]_vars

TypeOK ==
  /\ estimates \in {Null} \cup InferenceResults
  /\ isShowWaitIndicator \in BOOLEAN
  /\ BagSize(inflight) <= MaxInFlight

\* ---------------------------------------------------------- properties
AllCellsFalse(m) == \A i \in DOMAIN m : \A j \in DOMAIN m[i] : m[i][j] = FALSE

WellShaped(m, sz) ==
  /\ Len(m) = sz.rows
  /\ \A i \in 1..Len(m) : Len(m[i]) = sz.cols

\* the last operation changed the mask store: reset, or flipMask on a cell
IsMaskMutation ==
  \/ lastOp.op = "reset"
  \/ /\ lastOp.op = "flipMask"
     /\ 0 <= lastOp.x /\ lastOp.x < size.cols
     /\ 0 <= lastOp.y /\ lastOp.y < size.rows

IsOutOfRangeFlip ==
  /\ lastOp.op = "flipMask"
  /\ \/ lastOp.x < 0 \/ lastOp.x >= size.cols
     \/ lastOp.y < 0 \/ lastOp.y >= size.rows

\* C1: once the service has responded to a request, with success or with
\* failure, the waiting indicator is false again.
C1_WaitingClearsOnResponse ==
  lastOp.op \in {"success", "failure"} => isShowWaitIndicator = FALSE

\* C2: at most one inference request is outstanding at any time.
C2_AtMostOneOutstanding == BagSize(inflight) <= 1

\* C3: a mask mutation (reset, or flipMask on a cell) that leaves every
\* cell false leaves the displayed result absent, whether or not a request
\* is being waited for.
C3_ClearOnAllMasked ==
  IsMaskMutation /\ AllCellsFalse(mask) => estimates = Null

\* reset() while waiting, with a result on display, cleared the result
C3_Witness ==
  /\ lastOp.op = "reset"
  /\ lastOp.hadResult
  /\ isShowWaitIndicator
  /\ estimates = Null

\* C4: the observer's clear and the completion write are last-write-wins:
\* a successful response leaves its own body displayed, a clearing mask
\* mutation leaves the result absent, the result changes in no other way,
\* and a request leaves the in-flight set only by being answered.
C4_LastWriteWins ==
  /\ [][lastOp'.op = "success" => estimates' = lastOp'.data]_vars
  /\ [][IsMaskMutation' /\ AllCellsFalse(mask') => estimates' = Null]_vars
  /\ [][estimates' # estimates =>
          \/ lastOp'.op = "success"
          \/ IsMaskMutation' /\ AllCellsFalse(mask') /\ estimates' = Null]_vars
  /\ [][inflight' # inflight /\ BagSize(inflight') <= BagSize(inflight) =>
          /\ lastOp'.op \in {"success", "failure"}
          /\ BagSize(inflight') = BagSize(inflight) - 1]_vars

\* a response to a request sent for another mask arrives when the grid
\* is fully open again, and is displayed
C4_Witness ==
  /\ lastOp.op = "success"
  /\ lastOp.stale
  /\ AllCellsFalse(mask)
  /\ estimates = lastOp.data

\* C5: after a failed request the displayed result is what it was
\* immediately before the failure.
C5_FailureKeepsResult ==
  lastOp.op = "failure" => estimates = lastOp.before

\* a request failed while a result was on display
C5_Witness ==
  /\ lastOp.op = "failure"
  /\ lastOp.before # Null
  /\ estimates # Null

\* C6: flipMask(x, y) applied twice to any reachable mask, for any cell
\* (x, y) of the grid, gives the mask back; and whenever the same in-range
\* flipMask ran twice in a row the mask is the one before the two calls.
C6_FlipTwiceRestores ==
  /\ \A x \in 0..(size.cols - 1), y \in 0..(size.rows - 1) :
       flipMask(flipMask(mask, size, x, y).mask, size, x, y).mask = mask
  /\ (IsMaskMutation /\ lastOp.op = "flipMask" /\ lastOp.twice)
       => lastOp.restored

\* the same cell was flipped twice in a row while another cell is hidden
C6_Witness ==
  /\ IsMaskMutation
  /\ lastOp.op = "flipMask"
  /\ lastOp.twice
  /\ ~AllCellsFalse(mask)

\* C7: flipMask with x outside [0, cols) or y outside [0, rows) raises no
\* error and leaves every mask cell and the grid size unchanged.
C7_OutOfRangeNoOp ==
  IsOutOfRangeFlip =>
    /\ lastOp.error = "none"
    /\ mask = lastOp.before
    /\ WellShaped(mask, size)
    /\ size = ItemSize(Rows, Cols)

\* an out-of-range flipMask ran on a mask with hidden cells
C7_Witness == IsOutOfRangeFlip /\ ~AllCellsFalse(mask)

\* C8: after reset() isAllMasked() is true, every cell is false and the
\* grid keeps its size, whatever the mask was before.
C8_ResetAllMasked ==
  lastOp.op = "reset" =>
    /\ isAllMasked(mask, size)
    /\ AllCellsFalse(mask)
    /\ WellShaped(mask, size)
    /\ size = ItemSize(Rows, Cols)

\* reset() ran on a mask that had hidden cells
C8_Witness == lastOp.op = "reset" /\ lastOp.dirty

RECURSIVE SumCounts(_, _)
SumCounts(s, n) == IF n = 0 THEN 0 ELSE s[n].count + SumCounts(s, n - 1)

\* the setting the k-th emitted rectangle stands for
OriginOf(s, k) ==
  CHOOSE i \in 1..Len(s) : SumCounts(s, i - 1) < k /\ k <= SumCounts(s, i)

C10_RequestPayload ==
  /\ [][lastOp'.op = "estimate" =>
          inflight' = BagAdd(inflight,
                             [mask |-> [rows |-> size.rows,
                                        cols |-> size.cols,
                                        data |-> mask],
                              rectangles |-> toRectangleArray(settings)])]_vars
  /\ [][lastOp'.op # "estimate" =>
          \A r \in DOMAIN inflight' :
            r \in DOMAIN inflight /\ inflight'[r] <= inflight[r]]_vars
  /\ [][lastOp'.op = "failure" =>
          BagSize(inflight') = BagSize(inflight) - 1]_vars

\* the request just sent carries a mask with hidden cells and a non-empty
\* rectangle list
C10_Witness ==
  /\ lastOp.op = "estimate"
  /\ ~AllCellsFalse(mask)
  /\ \E r \in DOMAIN inflight :
       /\ r.mask.data = mask
       /\ r.rectangles = toRectangleArray(settings)
       /\ Len(r.rectangles) > 0

\* C14: the mask starts as 5 rows of 9 false cells, and after any
\* sequence of flipMask (in or out of range) and reset calls it has
\* size.rows rows of size.cols boolean cells each.
C14_MaskShape ==
  /\ size = ItemSize(5, 9)
  /\ Len(mask) = size.rows
  /\ \A i \in 1..Len(mask) :
       /\ Len(mask[i]) = size.cols
       /\ \A j \in 1..Len(mask[i]) : mask[i][j] \in BOOLEAN
  /\ lastOp.op = "init" => Len(mask) = 5 /\ Len(mask[1]) = 9
                            /\ AllCellsFalse(mask)

\* an in-range flipMask ran and the first and the last input cell are set
C14_Witness ==
  /\ IsMaskMutation
  /\ lastOp.op = "flipMask"
  /\ mask[1][1]
  /\ mask[MaxY + 1][MaxX + 1]

\* C17: the waiting indicator is true exactly when at least one request
\* is in flight.
C17_WaitingIffInFlight == isShowWaitIndicator = (BagSize(inflight) > 0)

\* C18: whenever all mask cells are false the displayed result is absent.
C18_NoResultWhenAllMasked == AllCellsFalse(mask) => estimates = Null

\* C18 as amended: a result comes to be displayed over an all-false mask
\* only by a successful response, and stays only until the next mask
\* mutation.
C18_ResultWhenAllMaskedOnlyByResponse ==
  [][AllCellsFalse(mask') /\ estimates' # Null =>
       \/ lastOp'.op = "success"
       \/ /\ AllCellsFalse(mask) /\ estimates' = estimates
          /\ ~IsMaskMutation']_vars

\* a request sent for the fully open grid is answered and displayed
C18_Witness ==
  /\ lastOp.op = "success"
  /\ ~lastOp.stale
  /\ AllCellsFalse(mask)
  /\ estimates # Null

\* C15: the isOpen flag passed to panel i is true exactly when the mask
\* cell panel i stands for is false.
C15_IsOpenWhenMaskFalse ==
  \A i \in 0..(PanelCount - 1) :
    isOpen(mask)[i + 1] = ~mask[(i \div Cols) + 1][(i % Cols) + 1]

\* C15 as amended: the isOpen flag passed to panel i is true exactly when
\* the mask cell panel i stands for is true, and a panel without data is
\* drawn light grey when that cell is true and dark grey when it is false.
C15_IsOpenWhenMaskTrue ==
  /\ Len(isOpen(mask)) = PanelCount
  /\ \A i \in 0..(PanelCount - 1) :
       LET cell == mask[(i \div Cols) + 1][(i % Cols) + 1] IN
       /\ isOpen(mask)[i + 1] = cell
       /\ panelClass(Null, isOpen(mask)[i + 1]) =
            (IF cell THEN "bg-gray-100" ELSE "bg-gray-500")

\* the first panel of the second row is open, the last panel is not
C15_Witness ==
  /\ lastOp.op = "flipMask"
  /\ isOpen(mask)[Cols + 1]
  /\ ~isOpen(mask)[PanelCount]
  /\ mask[2][1]

\* C16: handleClick(i) toggles mask[floor(i / cols)][i mod cols], which is
\* the cell panel i displays, and leaves every other cell, the size, the
\* display mode and the item settings unchanged.
C16_ClickTogglesOwnCell ==
  [][\A i \in 0..(PanelCount - 1) : HandleClick(i) =>
       /\ \A k \in 0..(PanelCount - 1) :
            /\ isOpen(mask')[k + 1] =
                 (IF k = i THEN ~isOpen(mask)[k + 1] ELSE isOpen(mask)[k + 1])
            /\ mask'[(k \div size.cols) + 1][(k % size.cols) + 1] =
                 (IF k = i THEN ~mask[(k \div size.cols) + 1][(k % size.cols) + 1]
                  ELSE mask[(k \div size.cols) + 1][(k % size.cols) + 1])
       /\ Len(isOpen(mask')) = PanelCount
       /\ size' = size /\ mode' = mode /\ settings' = settings]_vars

\* panel 9 (row 1, column 0) was clicked while panel 8 is open and the
\* mode is Probability
C16_Witness ==
  /\ lastOp.op = "flipMask"
  /\ lastOp.x = 0 /\ lastOp.y = 1
  /\ mask[2][1]
  /\ mask[1][Cols]
  /\ mode = DisplayMode.Probability

\* what panel i is given and shows in the current state
EntropyProp(i) == getEntropy(estimates, i, size)
ProbablityProp(i) == getProbability(estimates, i, size)
PanelDataOf(i) == panelData(mode, EntropyProp(i).value, ProbablityProp(i).value)

\* panel i lies outside a grid of the displayed result
OutsideGrid(g, i) == (i \div Cols) >= g.rows \/ (i % Cols) >= g.cols

\* C11: when the displayed result's grids are smaller than the mask, the
\* lookup for a panel outside them fails with a mapping error: it neither
\* throws another error nor yields undefined as panel data.
C11_MismatchIsMappingError ==
  estimates # Null =>
    \A i \in 0..(PanelCount - 1) :
      /\ OutsideGrid(probabilities(estimates), i) =>
           /\ ProbablityProp(i).error = "MappingError"
           /\ ProbablityProp(i).value # Undefined
      /\ OutsideGrid(entropy(estimates), i) =>
           /\ EntropyProp(i).error = "MappingError"
           /\ EntropyProp(i).value # Undefined

Luma(rgb) == rgb[1] * 299 + rgb[2] * 587 + rgb[3] * 114

Channels == {0, 2, 107, 125, 192, 255}

\* C12: for a panel with data of colour (R, G, B) the text colour is black
\* exactly when round((299 R + 587 G + 114 B) / 1000) > 125, i.e. when
\* the weighted sum is at least 125500, and white otherwise; white gives
\* black, black gives white, brightness exactly 125 gives white; a panel
\* without data has black text.
C12_TextColor ==
  /\ \A i \in 0..(PanelCount - 1) :
       LET pd == PanelDataOf(i) IN
       /\ pd = Null => textColor(pd) = "black"
       /\ pd.tag = "tuple" =>
            textColor(pd) =
              (IF Luma(pd.color) >= 125500 THEN "black" ELSE "white")
  /\ \A r \in Channels, g \in Channels, b \in Channels :
       textColor([tag |-> "tuple", value |-> 0, color |-> <<r, g, b>>]) =
         (IF Luma(<<r, g, b>>) >= 125500 THEN "black" ELSE "white")
  /\ textColor(Tuple(1)) = "black" /\ Tuple(1).color = <<255, 255, 255>>
  /\ textColor(Tuple(0)) = "white" /\ Tuple(0).color = <<0, 0, 0>>
  /\ textColor(Tuple(4)) = "white" /\ Luma(Tuple(4).color) = 124500
  /\ textColor(Tuple(2)) = "white" /\ Luma(Tuple(2).color) = 125000

\* a result is on display in Probability mode with a panel of brightness
\* exactly 125 in white text and a panel of weighted sum 125500 in black
C12_Witness ==
  /\ estimates # Null
  /\ mode = DisplayMode.Probability
  /\ \E i \in 0..(PanelCount - 1) :
       /\ PanelDataOf(i).tag = "tuple"
       /\ PanelDataOf(i).color = <<125, 125, 125>>
       /\ textColor(PanelDataOf(i)) = "white"
  /\ \E i \in 0..(PanelCount - 1) :
       /\ PanelDataOf(i).tag = "tuple"
       /\ Luma(PanelDataOf(i).color) = 125500
       /\ textColor(PanelDataOf(i)) = "black"

C13_Shown ==
  /\ mode \in {DisplayMode.Entropy, DisplayMode.Probability}
  /\ lastOp.op = "init" => mode = DisplayMode.Entropy
  /\ \A i \in 0..(PanelCount - 1) :
       IF estimates = Null THEN PanelDataOf(i) = Null
       ELSE LET g == IF mode = DisplayMode.Entropy THEN entropy(estimates)
                     ELSE probabilities(estimates)
            IN ~OutsideGrid(g, i) =>
                 PanelDataOf(i) = g.data[(i \div Cols) + 1][(i % Cols) + 1]

\* C13: the data shown for a cell is the result's entropy entry in mode
\* Entropy and its probabilities entry in mode Probability, and absent
\* when the result is absent; the mode starts as Entropy; changing the
\* mode modifies neither the result nor the mask.
C13_ModeSelectsField ==
  /\ []C13_Shown
  /\ [][mode' # mode =>
          /\ lastOp'.op = "setMode"
          /\ estimates' = estimates /\ mask' = mask]_vars

\* the mode was switched to Probability over a displayed result and a
\* mask with open cells
C13_Witness ==
  /\ lastOp.op = "setMode"
  /\ mode = DisplayMode.Probability
  /\ estimates # Null
  /\ estimates.id = 1
  /\ ~AllCellsFalse(mask)
  /\ PanelDataOf(0) = probabilities(estimates).data[1][1]
  /\ PanelDataOf(0) # entropy(estimates).data[1][1]

\* C19: after the user selects count n in the count selector of setting
\* i, the item store's count for setting i is n, and the stored counts
\* are the counts the selectors show.
C19_StoredCountIsSelected ==
  /\ lastOp.op = "selectCount" =>
       settings[lastOp.index + 1].count = lastOp.value
  /\ \A i \in 1..Len(settings) : settings[i].count = selectedNumItems[i]

\* C20: the size shown as selected in the selector of each setting,
\* presets[selectedItemSizePresetIndex], is the size the item store holds
\* for that setting.
C20_ShownSizeIsStored ==
  \A i \in 1..Len(settings) :
    presetsOf(component)[selectedItemSizePresetIndex[i] + 1] = settings[i].size

====
